---- MODULE Spec2Model ----
(***************************************************************************)
(* FinancialAnalyzer (scripts/dataprocessing.py): the per-symbol           *)
(* dictionary of price frames and the operations that fetch, clean and     *)
(* derive statistics from them.                                            *)
(*                                                                         *)
(* Numbers.  A float is modelled as an exact rational <<n, d>> in lowest   *)
(* terms with d > 0; the IEEE specials are the pairs with d = 0:           *)
(* NaN = <<0,0>>, +inf = <<1,0>>, -inf = <<-1,0>>.  Rounding error is not  *)
(* modelled.  The pandas semantics are those of pandas 1.x / 2.x, which    *)
(* the code's fillna(method='ffill') requires.                             *)
(***************************************************************************)
EXTENDS Integers, Sequences, FiniteSets, TLC

\* ------------------------------------------------------------------ bounds
MaxLen == 3
MaxWindow == 2
MaxCalls == 3

\* ------------------------------------------------------- program constants
Period == 252
TradingDays == 252
DefaultWindow == 50

\* ------------------------------------------------------------- arithmetic
NaN == <<0, 0>>
Inf == <<1, 0>>
NInf == <<-1, 0>>
Zero == <<0, 1>>
One == <<1, 1>>

Abs(n) == IF n < 0 THEN -n ELSE n

RECURSIVE Gcd(_, _)
Gcd(a, b) == IF b = 0 THEN a ELSE Gcd(b, a % b)

Sgn(n) == IF n > 0 THEN 1 ELSE IF n < 0 THEN -1 ELSE 0

\* the rational n/d (d # 0) in lowest terms with a positive denominator
Norm(n, d) ==
  LET g == Gcd(Abs(n), Abs(d))
  IN <<Sgn(d) * (n \div g), Abs(d) \div g>>

Num(k) == <<k, 1>>
IsNaN(x) == x = NaN
IsFinite(x) == x[2] # 0
Sign(x) == Sgn(x[1])
Neg(x) == <<-x[1], x[2]>>

Add(a, b) ==
  IF IsNaN(a) \/ IsNaN(b) THEN NaN
  ELSE IF IsFinite(a) /\ IsFinite(b) THEN Norm(a[1] * b[2] + b[1] * a[2], a[2] * b[2])
  ELSE IF IsFinite(a) THEN b
  ELSE IF IsFinite(b) THEN a
  ELSE IF a = b THEN a ELSE NaN

Sub(a, b) == Add(a, Neg(b))

Mul(a, b) ==
  IF IsNaN(a) \/ IsNaN(b) THEN NaN
  ELSE IF IsFinite(a) /\ IsFinite(b) THEN Norm(a[1] * b[1], a[2] * b[2])
  ELSE <<Sign(a) * Sign(b), 0>>

\* 1/x: 1/0 = +inf, 1/inf = 0
Recip(x) ==
  IF IsNaN(x) THEN NaN
  ELSE IF ~IsFinite(x) THEN Zero
  ELSE IF x[1] = 0 THEN Inf
  ELSE Norm(x[2], x[1])

\* float division never raises: x/0 is +-inf, 0/0 and inf/inf are NaN
Div(a, b) == Mul(a, Recip(b))

\* a <= b for non-NaN a, b
Leq(a, b) ==
  IF a = b THEN TRUE
  ELSE IF a = NInf \/ b = Inf THEN TRUE
  ELSE IF a = Inf \/ b = NInf THEN FALSE
  ELSE a[1] * b[2] <= b[1] * a[2]

Max2(a, b) == IF Leq(a, b) THEN b ELSE a
Min2(a, b) == IF Leq(a, b) THEN a ELSE b

\* ------------------------------------------------- pandas Series operations
\* one step of a running value: what is carried past the element x
Step(kind, acc, x) ==
  CASE kind = "ffill" -> IF IsNaN(x) THEN acc ELSE x
    [] kind = "cumprod" -> IF IsNaN(x) THEN acc ELSE Mul(acc, x)
    [] kind = "cummax" -> IF IsNaN(x) THEN acc ELSE Max2(acc, x)
    [] kind = "sum" -> IF IsNaN(x) THEN acc ELSE Add(acc, x)
    [] kind = "count" -> IF IsNaN(x) THEN acc ELSE Add(acc, One)

\* The running value over xs[lo..hi] started from acc: element k is the
\* value carried past xs[lo + k - 1].  The range is halved so that a series
\* of two seasonal cycles stays within the evaluator's recursion depth.
RECURSIVE Scan(_, _, _, _, _)
RECURSIVE ScanOn(_, _, _, _, _)
Scan(kind, xs, lo, hi, acc) ==
  IF lo > hi THEN <<>>
  ELSE IF lo = hi THEN <<Step(kind, acc, xs[lo])>>
  ELSE ScanOn(kind, xs, ((lo + hi) \div 2) + 1, hi, Scan(kind, xs, lo, (lo + hi) \div 2, acc))

\* the running value over xs[lo..hi] appended to the part already computed
ScanOn(kind, xs, lo, hi, left) ==
  left \o Scan(kind, xs, lo, hi, left[Len(left)])

\* the sequence [i \in 1..n |-> e] held as its elements, so that an element
\* is computed once however often it is read
AsSeq(xs) == xs \o <<>>

\* NaN entries of xs stay NaN in a skipna running value
MaskNaN(xs, run) ==
  AsSeq([i \in 1..Len(xs) |-> IF IsNaN(xs[i]) THEN NaN ELSE run[i]])

\* Series.ffill(): each missing value takes the last valid value before it
ffill(xs) == Scan("ffill", xs, 1, Len(xs), NaN)

\* the price ratio f[i]/f[i-1], without the "- 1"
Ratio(f) ==
  AsSeq([i \in 1..Len(f) |-> IF i = 1 THEN NaN ELSE Div(f[i], f[i - 1])])

\* f[i]/f[i-1] - 1 against the row before; the first has no row before it
Change(f) ==
  AsSeq([i \in 1..Len(f) |-> IF i = 1 THEN NaN ELSE Sub(Div(f[i], f[i - 1]), One)])

\* Series.pct_change(): fill_method='pad', then the change
pct_change(xs) == Change(ffill(xs))

\* Series.cummax(skipna=True): NaN entries stay NaN and are skipped
cummax(xs) == MaskNaN(xs, Scan("cummax", xs, 1, Len(xs), NInf))

Valid(xs) == SelectSeq(xs, LAMBDA x : ~IsNaN(x))

\* the reduction named kind ("sum" or "min") of two partial results
Combine(kind, a, b) == IF kind = "sum" THEN Add(a, b) ELSE Min2(a, b)

\* the reduction folded over xs[lo..hi], lo <= hi
RECURSIVE Fold(_, _, _, _)
Fold(kind, xs, lo, hi) ==
  IF lo = hi THEN xs[lo]
  ELSE LET mid == (lo + hi) \div 2
       IN Combine(kind, Fold(kind, xs, lo, mid), Fold(kind, xs, mid + 1, hi))

SumSeq(xs) == IF xs = <<>> THEN Zero ELSE Fold("sum", xs, 1, Len(xs))

\* a running sum of the growth in place of the running product:
\* 1 + (xs[1] - 1) + ... + (xs[i] - 1) over the valid entries
SumOfGrowth(xs) ==
  AsSeq([i \in 1..Len(xs) |->
           IF IsNaN(xs[i]) THEN NaN
           ELSE Add(One, Add(Num(-Len(Valid(SubSeq(xs, 1, i)))),
                             SumSeq(Valid(SubSeq(xs, 1, i)))))])

\* Series.cumprod(skipna=True): NaN entries stay NaN and are skipped
cumprod(xs) == MaskNaN(xs, Scan("cumprod", xs, 1, Len(xs), One))

\* Series.min(skipna=True): NaN when nothing is valid
min(xs) ==
  LET v == Valid(xs)
  IN IF v = <<>> THEN NaN ELSE Fold("min", v, 1, Len(v))

\* Series.mean(skipna=True): NaN when nothing is valid
mean(xs) ==
  LET v == Valid(xs)
  IN IF v = <<>> THEN NaN ELSE Div(SumSeq(v), Num(Len(v)))

\* the squared deviations of v from m
SqDev(v, m) == AsSeq([i \in 1..Len(v) |-> Mul(Sub(v[i], m), Sub(v[i], m))])

\* the variance with ddof = 1 of the values v, whose mean is m
SampleVar(v, m) ==
  IF Len(v) < 2 THEN NaN ELSE Div(SumSeq(SqDev(v, m)), Num(Len(v) - 1))

\* The square of Series.std(): sample variance (ddof = 1) of the valid
\* values, NaN when fewer than two are valid.  std() is its non-negative
\* root, so std() is 0 (NaN) exactly when this is 0 (NaN).
StdSq(xs) == SampleVar(Valid(xs), mean(xs))

\* rolling(window=w, min_periods=1): a mean from the first row on
RollingMeanFromFirstRow(xs, w) ==
  AsSeq([i \in 1..Len(xs) |-> mean(SubSeq(xs, IF i < w THEN 1 ELSE i - w + 1, i))])

\* the value of the running sequence run before its first element is 0
Upto(run, i) == IF i = 0 THEN Zero ELSE run[i]

\* The window ending at i from the running sum and the running count of the
\* valid values, as pandas' roll_mean adds the entering value and removes
\* the leaving one: NaN until w values are in the window (min_periods = w).
Windowed(sum, count, w) ==
  AsSeq([i \in 1..Len(sum) |->
           IF i < w \/ Sub(count[i], Upto(count, i - w)) # Num(w) THEN NaN
           ELSE Div(Sub(sum[i], Upto(sum, i - w)), Num(w))])

\* Series.rolling(window=w).mean(): NaN unless the w values ending at i are
\* all present
RollingMean(xs, w) ==
  Windowed(Scan("sum", xs, 1, Len(xs), Zero), Scan("count", xs, 1, Len(xs), Zero), w)

\* ------------------------------------------------------------ DataFrame
\* A frame holds the Date values (a column after reset_index, the index
\* after set_index) and its value columns, all of the same length.
Range(f) == {f[i] : i \in DOMAIN f}

NRows(df) == Len(df.date)

HasCol(df, c) == c \in DOMAIN df.cols

\* df[name] = xs
SetCol(df, name, xs) == [df EXCEPT !.cols = (name :> xs) @@ df.cols]

\* f'{window}-Day MA'
MAName(window) == ToString(window) \o "-Day MA"

\* the rows of xs at the positions idx, in order
At(xs, idx) == AsSeq([k \in 1..Len(idx) |-> xs[idx[k]]])

\* yf.download(...) then df.reset_index(): Date is an ordinary column
NewFrame(closes) ==
  [date |-> AsSeq([i \in 1..Len(closes) |-> i]),
   dateIsIndex |-> FALSE,
   cols |-> ("Close" :> closes)]

\* the outcome of one pass through a try block: ok is FALSE when the except
\* branch ran, df is the frame as the pass left it, val the value stored in
\* the result map (when ok)
Outcome(ok, df, val) == [ok |-> ok, df |-> df, val |-> val]

None == <<>>

\* ------------------------------------------- per-symbol bodies (try blocks)
\* df.fillna(method='ffill'): every column is forward-filled
fillna(df) == [df EXCEPT !.cols = [c \in DOMAIN df.cols |-> ffill(df.cols[c])] @@ <<>>]

\* the positions of the rows that have a value in every column
CompleteRows(df) ==
  SelectSeq(AsSeq([i \in 1..NRows(df) |-> i]),
            LAMBDA i : \A c \in DOMAIN df.cols : ~IsNaN(df.cols[c][i]))

Take(df, idx) ==
  [df EXCEPT !.date = At(df.date, idx),
             !.cols = [c \in DOMAIN df.cols |-> At(df.cols[c], idx)] @@ <<>>]

\* df.dropna(): a row with a missing value in any column is removed
dropna(df) == Take(df, CompleteRows(df))

FillAndDrop(df) == dropna(fillna(df))

\* clean_data: df['Date'] raises KeyError when Date is the index
clean_body(df) ==
  IF df.dateIsIndex THEN Outcome(FALSE, df, None)
  ELSE Outcome(TRUE, FillAndDrop(df), None)

volatility_body(df) ==
  LET d1 == SetCol(df, "Daily Return", pct_change(df.cols["Close"]))
  IN Outcome(TRUE, d1, StdSq(d1.cols["Daily Return"]))

\* rendering is an external collaborator and is taken not to raise
histogram_body(df) == Outcome(TRUE, df, None)

\* (1 + r).cumprod() - 1
Shift(xs, k) == AsSeq([i \in 1..Len(xs) |-> Add(xs[i], k)])

CumulativeReturn(r) == Shift(cumprod(Shift(r, One)), Neg(One))

\* plot_cumulative_returns: the columns are stored before df['Date'] is read
cumulative_returns_body(df) ==
  LET d1 == SetCol(df, "Daily Return", pct_change(df.cols["Close"]))
      d2 == SetCol(d1, "Cumulative Return", CumulativeReturn(d1.cols["Daily Return"]))
  IN Outcome(~df.dateIsIndex, d2, None)

moving_average_body(df, window) ==
  Outcome(TRUE, SetCol(df, MAName(window), RollingMean(df.cols["Close"], window)), None)

\* plot_moving_average: reads df['Date'] and df['50-Day MA']
plot_moving_average_body(df) ==
  Outcome(~df.dateIsIndex /\ HasCol(df, MAName(DefaultWindow)), df, None)

\* a division that raises ZeroDivisionError on a zero standard deviation
sharpe_raising_body(df) ==
  LET d1 == SetCol(df, "Daily Return", pct_change(df.cols["Close"]))
      m == mean(d1.cols["Daily Return"])
      v == StdSq(d1.cols["Daily Return"])
  IN Outcome(v # Zero, d1,
             [sgn |-> Sign(m), sq |-> Mul(Div(Mul(m, m), v), Num(TradingDays))])

\* calculate_sharpe_ratio: mean / std * sqrt(252), held as its sign and its
\* square (sq is NaN for NaN, +inf for an infinite ratio)
sharpe_body(df) ==
  LET d1 == SetCol(df, "Daily Return", pct_change(df.cols["Close"]))
      m == mean(d1.cols["Daily Return"])
      v == StdSq(d1.cols["Daily Return"])
  IN Outcome(TRUE, d1,
             [sgn |-> Sign(m), sq |-> Mul(Div(Mul(m, m), v), Num(TradingDays))])

\* seasonal_decompose(x, model='multiplicative', period=252) accepts x
Decomposable(closes) ==
  /\ \A i \in 1..Len(closes) : IsFinite(closes[i])
  /\ \A i \in 1..Len(closes) : Sign(closes[i]) > 0
  /\ Len(closes) >= 2 * Period

\* decompose_trends: set_index raises KeyError when Date is already the
\* index; reset_index runs only when nothing before it raised
decompose_body(df) ==
  IF df.dateIsIndex THEN Outcome(FALSE, df, None)
  ELSE IF Decomposable(df.cols["Close"])
       THEN Outcome(TRUE, df, [observed |-> df.cols["Close"], period |-> Period])
       ELSE Outcome(FALSE, [df EXCEPT !.dateIsIndex = TRUE], None)

\* a - b, element by element
Minus(a, b) == AsSeq([i \in 1..Len(a) |-> Sub(a[i], b[i])])

max_drawdown_body(df) ==
  LET d1 == SetCol(df, "Cumulative Return",
                   CumulativeReturn(pct_change(df.cols["Close"])))
      d2 == SetCol(d1, "Peak", cummax(d1.cols["Cumulative Return"]))
      d3 == SetCol(d2, "Drawdown", Minus(d2.cols["Cumulative Return"], d2.cols["Peak"]))
  IN Outcome(TRUE, d3, min(d3.cols["Drawdown"]))

\* ------------------------------------------------------------- the loops
Symbols == {"AAA", "BBB"}

ResultMapOps ==
  {"calculate_volatility", "calculate_sharpe_ratio", "decompose_trends",
   "calculate_max_drawdown"}

ReturnsDataOps == {"fetch_data", "clean_data", "calculate_moving_average"}

\* the try block of call.op applied to one stored frame
Body(call, df) ==
  CASE call.op = "clean_data" -> clean_body(df)
    [] call.op = "calculate_volatility" -> volatility_body(df)
    [] call.op = "plot_price_histogram" -> histogram_body(df)
    [] call.op = "plot_cumulative_returns" -> cumulative_returns_body(df)
    [] call.op = "calculate_moving_average" -> moving_average_body(df, call.window)
    [] call.op = "plot_moving_average" -> plot_moving_average_body(df)
    [] call.op = "calculate_sharpe_ratio" -> sharpe_body(df)
    [] call.op = "decompose_trends" -> decompose_body(df)
    [] call.op = "calculate_max_drawdown" -> max_drawdown_body(df)

\* self.data[symbol] = df: a new key goes last in the iteration order
Put(st, s, df) ==
  [st EXCEPT !.keys = IF s \in Range(@) THEN @ ELSE Append(@, s),
             !.data = (s :> df) @@ @]

\* an exception that escapes the loop: the remaining symbols are skipped
AbortLoop(rest) == <<>>

\* except Exception: logging.error(...) sits inside the for loop, so the
\* loop goes on with the remaining symbols
AfterError(rest) == rest

\* the for loop of an operation over the symbols in todo; st.res is the
\* operation's local result map, st.errs the symbols logged with
\* logging.error
RECURSIVE Loop(_, _, _)
Loop(call, todo, st) ==
  IF todo = <<>> THEN st
  ELSE LET s == Head(todo)
           failed == [st EXCEPT !.errs = @ \cup {s}]
       IN IF call.op = "fetch_data"
          THEN IF call.resp[s].ok
               THEN Loop(call, Tail(todo), Put(st, s, NewFrame(call.resp[s].rows)))
               ELSE Loop(call, AfterError(Tail(todo)), failed)
          ELSE LET o == Body(call, st.data[s])
               IN IF o.ok
                  THEN Loop(call, Tail(todo),
                            [st EXCEPT !.data[s] = o.df, !.res = (s :> o.val) @@ @])
                  ELSE Loop(call, AfterError(Tail(todo)),
                            [failed EXCEPT !.data[s] = o.df])

\* one whole call on the dictionary (ks, d): fetch_data iterates its
\* symbols argument, every other operation iterates self.data.items()
Return(call, st) ==
  [keys |-> st.keys,
   data |-> st.data,
   errs |-> st.errs,
   ret |-> IF call.op \in ReturnsDataOps THEN st.data
           ELSE IF call.op \in ResultMapOps THEN st.res
           ELSE None]

Run(call, ks, d) ==
  Return(call,
         Loop(call, IF call.op = "fetch_data" THEN call.symbols ELSE ks,
              [keys |-> ks, data |-> d, res |-> <<>>, errs |-> {}]))

\* ----------------------------------------------------------------- inputs
RawVals == {NaN, Num(50), Num(100)}

SeqsUpTo(S, n) == UNION {[1..k -> S] : k \in 0..n}

\* two full seasonal cycles of a constant close
LongFeed == AsSeq([i \in 1..(2 * Period) |-> Num(100)])

\* the history the provider holds in the dictionary runs: three days for
\* one symbol, two seasonal cycles for the other
Catalogue == ("AAA" :> <<Num(100), Num(50), Num(100)>>) @@ ("BBB" :> LongFeed)

\* every raw series up to MaxLen rows, and the spec's scenarios
Series ==
  SeqsUpTo(RawVals, MaxLen) \cup {<<Num(100), Num(110), Num(121)>>, LongFeed}

\* what the provider does for the symbol s: raise, or return its rows
Responses(s) == {[ok |-> FALSE, rows |-> <<>>], [ok |-> TRUE, rows |-> Catalogue[s]]}

\* symbol lists without repetition
SymbolLists == {<<"AAA">>, <<"BBB">>, <<"AAA", "BBB">>}

Windows == 1..MaxWindow \cup {DefaultWindow}

NoResp == <<>>

\* ------------------------------------------------------------------ state
VARIABLES
  keys,   \* the keys of self.data in insertion (iteration) order
  data,   \* self.data: symbol -> frame
  call,   \* the latest call and its inputs
  ret,    \* what the latest call returned
  errs,   \* the symbols the latest call logged an error for
  calls   \* number of calls made

vars == <<keys, data, call, ret, errs, calls>>

Init ==
  /\ keys = <<>>
  /\ data = <<>>
  /\ call = [op |-> "__init__", symbols |-> <<>>, resp |-> NoResp, window |-> 0]
  /\ ret = None
  /\ errs = {}
  /\ calls = 0

\* the call c runs to its return
Do(c) ==
  /\ \E r \in {Run(c, keys, data)} :
        /\ keys' = r.keys
        /\ data' = r.data
        /\ ret' = r.ret
        /\ errs' = r.errs
  /\ call' = c
  /\ calls' = calls + 1

Plain(op) == [op |-> op, symbols |-> <<>>, resp |-> NoResp, window |-> 0]

fetch_data ==
  \E symbols \in SymbolLists :
    \E resp \in {r \in [Range(symbols) -> UNION {Responses(s) : s \in Symbols}] :
                   \A s \in Range(symbols) : r[s] \in Responses(s)} :
      /\ calls < MaxCalls
      /\ Do([op |-> "fetch_data", symbols |-> symbols, resp |-> resp, window |-> 0])

clean_data ==
  /\ calls < MaxCalls
  /\ Do(Plain("clean_data"))

calculate_volatility ==
  /\ calls < MaxCalls
  /\ Do(Plain("calculate_volatility"))

plot_price_histogram ==
  /\ calls < MaxCalls
  /\ Do(Plain("plot_price_histogram"))

plot_cumulative_returns ==
  /\ calls < MaxCalls
  /\ Do(Plain("plot_cumulative_returns"))

calculate_moving_average ==
  \E window \in Windows :
    /\ calls < MaxCalls
    /\ Do([op |-> "calculate_moving_average", symbols |-> <<>>, resp |-> NoResp,
           window |-> window])

plot_moving_average ==
  /\ calls < MaxCalls
  /\ Do(Plain("plot_moving_average"))

calculate_sharpe_ratio ==
  /\ calls < MaxCalls
  /\ Do(Plain("calculate_sharpe_ratio"))

decompose_trends ==
  /\ calls < MaxCalls
  /\ Do(Plain("decompose_trends"))

calculate_max_drawdown ==
  /\ calls < MaxCalls
  /\ Do(Plain("calculate_max_drawdown"))

Next ==
  \/ fetch_data
  \/ clean_data
  \/ calculate_volatility
  \/ plot_price_histogram
  \/ plot_cumulative_returns
  \/ calculate_moving_average
  \/ plot_moving_average
  \/ calculate_sharpe_ratio
  \/ decompose_trends
  \/ calculate_max_drawdown

Spec == Init /\ [][Next]_vars

\* ---------------------------------------------- one symbol, every series
\* the state after fetch_data(["AAA"], ...) returned the raw series f
InitSeries ==
  \E f \in Series :
    /\ keys = <<"AAA">>
    /\ data = ("AAA" :> NewFrame(f))
    /\ call = [op |-> "fetch_data", symbols |-> <<"AAA">>,
               resp |-> ("AAA" :> [ok |-> TRUE, rows |-> f]), window |-> 0]
    /\ ret = data
    /\ errs = {}
    /\ calls = 1

NextSeries ==
  \/ clean_data
  \/ calculate_volatility
  \/ plot_price_histogram
  \/ plot_cumulative_returns
  \/ calculate_moving_average
  \/ plot_moving_average
  \/ calculate_sharpe_ratio
  \/ decompose_trends
  \/ calculate_max_drawdown

SpecSeries == InitSeries /\ [][NextSeries]_vars

\* ================================================================ claims
Stored == DOMAIN data

Close(s) == data[s].cols["Close"]

\* no close is missing
NoMissing(xs) == \A i \in 1..Len(xs) : ~IsNaN(xs[i])

\* every close is present and positive
Positive(xs) == \A i \in 1..Len(xs) : IsFinite(xs[i]) /\ Sign(xs[i]) > 0

\* every close is present and equal to the first
Constant(xs) == \A i \in 1..Len(xs) : ~IsNaN(xs[i]) /\ xs[i] = xs[1]

\* the symbols a call goes through
Processed(c, ks) == IF c.op = "fetch_data" THEN Range(c.symbols) ELSE Range(ks)

\* the same call made without the symbols in failed: fetch_data is not asked
\* for them, the other operations do not find them in the dictionary
RunWithout(c, ks, d, failed) ==
  IF c.op = "fetch_data"
  THEN Run([c EXCEPT !.symbols = SelectSeq(@, LAMBDA s : s \notin failed)], ks, d)
  ELSE Run(c, SelectSeq(ks, LAMBDA s : s \notin failed),
           [s \in DOMAIN d \ failed |-> d[s]])

\* C1: in every call in which a symbol fails, each symbol that the call goes
\* through and that does not fail is processed, and its stored frame and its
\* entry in the returned map are those of the same call made without the
\* failing symbols.
Isolation ==
  [][(calls' = calls + 1 /\ errs' # {}) =>
       \E alt \in {RunWithout(call', keys, data, errs')} :
         /\ errs' \subseteq Processed(call', keys)
         /\ alt.errs = {}
         /\ \A s \in Processed(call', keys) \ errs' :
              /\ s \in DOMAIN data'
              /\ data'[s] = alt.data[s]
              /\ call'.op \in ResultMapOps \cup ReturnsDataOps =>
                   s \in DOMAIN ret' /\ ret'[s] = alt.ret[s]]_vars

\* one symbol fails in decompose_trends, another is decomposed and returned
IsolationWitness ==
  /\ call.op = "decompose_trends"
  /\ errs = {"AAA"}
  /\ DOMAIN ret = {"BBB"}
  /\ ~data["BBB"].dateIsIndex

\* C2: the map a per-symbol operation returns has no entry for a symbol
\* whose processing failed in that call.
FailedSymbolAbsent ==
  call.op \in ResultMapOps \cup {"fetch_data"} =>
    \A s \in errs : s \notin DOMAIN ret

\* the running peak of the cumulative return Close[j]/Close[1] - 1 taken
\* from the first observation on, and the decline from it
ReturnSince(xs, i) == Sub(Div(xs[i], xs[1]), One)

PeakSince(xs, i) ==
  CHOOSE p \in {ReturnSince(xs, j) : j \in 1..i} :
    \A j \in 1..i : Leq(ReturnSince(xs, j), p)

DeclineFromPeak(xs, i) == Sub(ReturnSince(xs, i), PeakSince(xs, i))

\* C3: for a series of positive closes calculate_max_drawdown returns the
\* largest decline of the cumulative return from its running peak, the peak
\* including the initial observation (cumulative return 0).  Stated from two
\* observations on; the single observation is C4's case.
MaxDrawdownFromInitialPeak ==
  call.op = "calculate_max_drawdown" =>
    \A s \in DOMAIN ret :
      Positive(Close(s)) /\ Len(Close(s)) >= 2 =>
        /\ \A i \in 1..Len(Close(s)) : Leq(ret[s], DeclineFromPeak(Close(s), i))
        /\ \E i \in 1..Len(Close(s)) : ret[s] = DeclineFromPeak(Close(s), i)

\* C4: for a series of any length without a missing close, every Drawdown[i]
\* is a number <= 0 and so is the value calculate_max_drawdown returns.
DrawdownDefinedNonPositive ==
  call.op = "calculate_max_drawdown" =>
    \A s \in DOMAIN ret :
      Positive(Close(s)) /\ Len(Close(s)) >= 1 =>
        /\ IsFinite(ret[s]) /\ Leq(ret[s], Zero)
        /\ \A i \in 1..Len(Close(s)) :
             /\ IsFinite(data[s].cols["Drawdown"][i])
             /\ Leq(data[s].cols["Drawdown"][i], Zero)

CumulativeOps == {"plot_cumulative_returns", "calculate_max_drawdown"}

\* C6: for positive closes the stored Cumulative Return is undefined in the
\* first row and Close[i]/Close[first] - 1 in every later row; the stored
\* Daily Return is undefined in the first row; Close = [100,110,121] gives
\* Daily Return [_, 1/10, 1/10] and Cumulative Return [_, 1/10, 21/100].
Telescoping ==
  call.op \in CumulativeOps =>
    \A s \in Stored :
      Positive(Close(s)) =>
        /\ \A i \in 1..Len(Close(s)) :
             data[s].cols["Cumulative Return"][i] =
               IF i = 1 THEN NaN ELSE Sub(Div(Close(s)[i], Close(s)[1]), One)
        /\ (call.op = "plot_cumulative_returns" /\ Len(Close(s)) >= 1) =>
             IsNaN(data[s].cols["Daily Return"][1])
        /\ (call.op = "plot_cumulative_returns"
              /\ Close(s) = <<Num(100), Num(110), Num(121)>>) =>
             /\ data[s].cols["Daily Return"] = <<NaN, <<1, 10>>, <<1, 10>>>>
             /\ data[s].cols["Cumulative Return"] = <<NaN, <<1, 10>>, <<21, 100>>>>

\* the scenario of the specification, after plot_cumulative_returns
TelescopingWitness ==
  /\ call.op = "plot_cumulative_returns"
  /\ "AAA" \in Stored
  /\ Close("AAA") = <<Num(100), Num(110), Num(121)>>
  /\ data["AAA"].cols["Cumulative Return"][3] = <<21, 100>>

\* the positions of the rows whose forward-filled close is present
Present(f) == SelectSeq(AsSeq([i \in 1..Len(f) |-> i]), LAMBDA i : ~IsNaN(f[i]))

RowsWithClose(xs) == Present(ffill(xs))

\* C7: clean_data forward-fills each missing close and drops only the rows
\* that still have no close, whatever derived columns the frame holds; so a
\* series without a missing close keeps all its rows.
CleanKeepsRowsWithClose ==
  [][call'.op = "clean_data" =>
       \A s \in Stored \ errs' :
         /\ data'[s].date = At(data[s].date, RowsWithClose(Close(s)))
         /\ data'[s].cols["Close"] = At(ffill(Close(s)), RowsWithClose(Close(s)))]_vars

\* C8: calculate_sharpe_ratio fails for no symbol; a zero standard deviation
\* gives an infinite or NaN entry, any other gives mean / std * sqrt(252)
\* (sign of the mean, square mean^2 * 252 / std^2).
SharpeDefined ==
  call.op = "calculate_sharpe_ratio" =>
    /\ errs = {}
    /\ DOMAIN ret = Stored
    /\ \A s \in Stored :
         \E m \in {mean(data[s].cols["Daily Return"])} :
           \E v \in {StdSq(data[s].cols["Daily Return"])} :
             /\ v = Zero => ret[s].sq \in {Inf, NaN}
             /\ v = Zero => (ret[s].sq = NaN <=> m = Zero)
             /\ v = Zero => ret[s].sgn = Sign(m)
             /\ IsNaN(v) => ret[s].sq = NaN
             /\ (IsFinite(v) /\ v # Zero) =>
                  /\ ret[s].sgn = Sign(m)
                  /\ IsFinite(ret[s].sq)
                  /\ Mul(ret[s].sq, v) = Mul(Mul(m, m), Num(TradingDays))

\* a constant close of three observations: 0 / 0 is stored as NaN
SharpeWitness ==
  /\ call.op = "calculate_sharpe_ratio"
  /\ "AAA" \in Stored
  /\ Close("AAA") = <<Num(100), Num(100), Num(100)>>
  /\ "AAA" \in DOMAIN ret
  /\ ret["AAA"].sq = NaN

\* C9: calculate_moving_average(window=W) fails for no symbol, leaves the
\* rows and Close as they were, and stores 'W-Day MA' with MA[i] undefined
\* for i < W and W * MA[i] = Close[i-W+1] + ... + Close[i] from then on
\* (undefined when a close in the window is missing); for W = 1 the column
\* is the Close column.
MovingAverage ==
  [][call'.op = "calculate_moving_average" =>
       /\ errs' = {}
       /\ DOMAIN data' = Stored
       /\ \A s \in Stored :
            /\ data'[s].date = data[s].date
            /\ data'[s].cols["Close"] = Close(s)
            /\ HasCol(data'[s], MAName(call'.window))
            /\ Len(data'[s].cols[MAName(call'.window)]) = Len(Close(s))
            /\ \A i \in 1..Len(Close(s)) :
                 \E ma \in {data'[s].cols[MAName(call'.window)][i]} :
                   IF i < call'.window
                      \/ ~NoMissing(SubSeq(Close(s), i - call'.window + 1, i))
                   THEN IsNaN(ma)
                   ELSE Mul(ma, Num(call'.window)) =
                          SumSeq(SubSeq(Close(s), i - call'.window + 1, i))
            /\ call'.window = 1 => data'[s].cols[MAName(1)] = Close(s)]_vars

\* a two-day average over [100, 50, 100]
MovingAverageWitness ==
  /\ call.op = "calculate_moving_average"
  /\ call.window = 2
  /\ "AAA" \in Stored
  /\ Close("AAA") = <<Num(100), Num(50), Num(100)>>
  /\ data["AAA"].cols[MAName(2)] = <<NaN, Num(75), Num(75)>>

\* C10: decompose_trends leaves every stored frame as it was, Date an
\* ordinary column, whether the decomposition succeeded or failed.
DecomposeLeavesFrames ==
  [][call'.op = "decompose_trends" => data' = data]_vars

====
